---------------------------- MODULE Spec2Model ----------------------------
(***************************************************************************)
(* Dimensify (asgarindoo/ImageResizer): the resize endpoint                *)
(* (app/api/resize/route.ts) and the client session controller (the Home   *)
(* component of app/page.tsx).                                             *)
(*                                                                         *)
(* A text field of the form is Text(s), s a sequence of one-character      *)
(* strings, or Absent for a field the multipart body does not hold         *)
(* (FormData.get -> null).  A JavaScript number is Num(n) or NaN.          *)
(***************************************************************************)
EXTENDS Integers, Sequences, FiniteSets, Bags, TLC

Null == "null"

Absent == [present |-> FALSE, text |-> <<>>]

Text(s) == [present |-> TRUE, text |-> s]

NaN == [nan |-> TRUE, val |-> 0]

Num(n) == [nan |-> FALSE, val |-> n]

(***************************************************************************)
(* ECMAScript parseInt(string) with no radix, as route.ts calls it.        *)
(***************************************************************************)

\* The digit value of a character; 99 for a character that is no digit of any radix.
DigitValue(c) ==
  CASE c = "0" -> 0 [] c = "1" -> 1 [] c = "2" -> 2 [] c = "3" -> 3
    [] c = "4" -> 4 [] c = "5" -> 5 [] c = "6" -> 6 [] c = "7" -> 7
    [] c = "8" -> 8 [] c = "9" -> 9
    [] c \in {"a", "A"} -> 10 [] c \in {"b", "B"} -> 11 [] c \in {"c", "C"} -> 12
    [] c \in {"d", "D"} -> 13 [] c \in {"e", "E"} -> 14 [] c \in {"f", "F"} -> 15
    [] OTHER -> 99

IsWhiteSpace(c) == c \in {" ", "\t", "\n"}

\* String(v): the argument of parseInt is converted to a string first.
ToStringArg(v) == IF v.present THEN v.text ELSE <<"n", "u", "l", "l">>

RECURSIVE TrimStart(_)
TrimStart(s) ==
  IF s # <<>> /\ IsWhiteSpace(Head(s)) THEN TrimStart(Tail(s)) ELSE s

\* The longest prefix of s made of digits of the radix.
RECURSIVE DigitPrefix(_, _)
DigitPrefix(s, radix) ==
  IF s # <<>> /\ DigitValue(Head(s)) < radix
    THEN <<Head(s)>> \o DigitPrefix(Tail(s), radix)
    ELSE <<>>

\* The integer a digit sequence denotes in the radix.
RECURSIVE MathInt(_, _)
MathInt(z, radix) ==
  IF z = <<>> THEN 0
  ELSE MathInt(SubSeq(z, 1, Len(z) - 1), radix) * radix + DigitValue(z[Len(z)])

parseInt(v) ==
  LET s0   == TrimStart(ToStringArg(v))
      neg  == s0 # <<>> /\ Head(s0) = "-"
      s1   == IF s0 # <<>> /\ Head(s0) \in {"+", "-"} THEN Tail(s0) ELSE s0
      hex  == Len(s1) >= 2 /\ s1[1] = "0" /\ s1[2] \in {"x", "X"}
      R    == IF hex THEN 16 ELSE 10
      s2   == IF hex THEN SubSeq(s1, 3, Len(s1)) ELSE s1
      z    == DigitPrefix(s2, R)
  IN  IF z = <<>> THEN NaN
      ELSE IF neg THEN Num(0 - MathInt(z, R)) ELSE Num(MathInt(z, R))

\* JavaScript's !n for a number: true of NaN and of 0.
Falsy(n) == n.nan \/ n.val = 0

\* a <= b, a < b, a > b on numbers: every comparison with NaN is false.
NumLe(a, b) == ~a.nan /\ ~b.nan /\ a.val <= b.val

NumLt(a, b) == ~a.nan /\ ~b.nan /\ a.val < b.val

NumGt(a, b) == ~a.nan /\ ~b.nan /\ a.val > b.val

(***************************************************************************)
(* The resize endpoint.                                                    *)
(***************************************************************************)

\* The 'image' field: absent, a text field, or a file part with a MIME type.
NoFile == [kind |-> "absent", type |-> "undefined", value |-> ""]

TextField(s) == [kind |-> "text", type |-> "undefined", value |-> s]

FileField(t) == [kind |-> "file", type |-> t, value |-> ""]

\* !imageFile: null, and the empty string of an empty text field, are falsy.
ImageMissing(img) == img.kind = "absent" \/ (img.kind = "text" /\ img.value = "")

\* imageFile.type: undefined on a string.
ImageType(img) == img.type

ServerAllowedTypes == {"image/jpeg", "image/jpg", "image/png", "image/webp"}

ServerFormats == {"jpeg", "jpg", "png", "webp"}

ErrNoImage == "No image file provided"

ErrUnsupportedType ==
  "Unsupported file type. Only JPEG, JPG, PNG, and WebP images are allowed."

ErrInvalidDimensions == "Invalid dimensions provided"

ErrInvalidFormat ==
  "Invalid format specified. Only JPEG, JPG, PNG, and WebP are supported."

ErrInvalidQuality == "Invalid quality value"

ErrProcessing == "Failed to process image"

ErrMethod == "Method not allowed"

NoHeaders == [contentType |-> "application/json", disposition |-> <<>>,
              cacheControl |-> Null, pragma |-> Null, expires |-> Null]

\* NextResponse.json({ error }, { status })
JsonError(status, msg) ==
  [status |-> status, error |-> msg, body |-> "json", headers |-> NoHeaders]

\* As mimeTypes, with the key jpg left out of the table.
mimeTypes_NoJpg(format) ==
  CASE format = "jpeg" -> "image/jpeg"
    [] format = "webp" -> "image/webp"
    [] format = "png"  -> "image/png"
    [] OTHER -> "undefined"

\* mimeTypes[format]: undefined for a key the table does not hold.
mimeTypes(format) ==
  CASE format = "jpeg" -> "image/jpeg"
    [] format = "jpg"  -> "image/jpeg"
    [] format = "webp" -> "image/webp"
    [] format = "png"  -> "image/png"
    [] OTHER -> "undefined"

\* The canvas the resize is given.
Background(format) ==
  IF format = "png" THEN [r |-> 0, g |-> 0, b |-> 0, alpha |-> 0]
  ELSE [r |-> 255, g |-> 255, b |-> 255, alpha |-> 1]

\* The switch over the format: which encoder is configured, and how.
Encoder(format, quality) ==
  CASE format \in {"jpeg", "jpg"} ->
         [codec |-> "jpeg", quality |-> quality, progressive |-> TRUE,
          mozjpeg |-> TRUE, nearLossless |-> FALSE, effort |-> 0, compressionLevel |-> 0]
    [] format = "webp" ->
         [codec |-> "webp", quality |-> quality, progressive |-> FALSE,
          mozjpeg |-> FALSE, nearLossless |-> NumLe(Num(90), quality), effort |-> 6,
          compressionLevel |-> 0]
    [] format = "png" ->
         [codec |-> "png", quality |-> quality, progressive |-> FALSE,
          mozjpeg |-> FALSE, nearLossless |-> FALSE, effort |-> 0, compressionLevel |-> 9]
    [] OTHER ->
         [codec |-> "jpeg", quality |-> Num(100), progressive |-> FALSE,
          mozjpeg |-> FALSE, nearLossless |-> FALSE, effort |-> 0, compressionLevel |-> 0]

\* The call made to the image library once validation has passed.
SharpCall(form) ==
  [width |-> parseInt(form.width), height |-> parseInt(form.height), fit |-> "fill",
   background |-> Background(form.format),
   encoder |-> Encoder(form.format, parseInt(form.quality))]

NoCall == [fit |-> "none"]

\* The decoded source images, as far as transparency goes: with or without
\* transparent pixels.
SourceImages == {[alpha |-> a] : a \in BOOLEAN}

\* processedImage.toBuffer(): what the pipeline built at lines 53-86 makes of a
\* source image.  fit 'fill' stretches the source over the whole target, so no
\* canvas shows and the resize background colours nothing; the pipeline holds
\* no flatten step.  The png and webp encoders write the alpha channel they are
\* given; the jpeg encoder has none to write and drops it, which leaves the
\* transparent pixels black.
toBuffer(call, source) ==
  LET canvas == IF call.fit = "contain" THEN call.background ELSE Null
  IN  IF call.encoder.codec = "jpeg"
      THEN [alpha |-> FALSE,
            matte |-> IF source.alpha THEN "black" ELSE "none",
            canvas |-> canvas]
      ELSE [alpha |-> source.alpha, matte |-> "none", canvas |-> canvas]

\* As Success, with a response a cache may store.
Success_Cacheable(form) ==
  [status |-> 200, error |-> Null, body |-> "image",
   headers |-> [contentType  |-> mimeTypes(form.format),
                disposition  |-> <<"attachment; filename=\"resized-image.", form.format, "\"">>,
                cacheControl |-> "no-cache",
                pragma       |-> "no-cache",
                expires      |-> "0"]]

\* The success response: the encoded bytes and the download headers.
Success(form) ==
  [status |-> 200, error |-> Null, body |-> "image",
   headers |-> [contentType  |-> mimeTypes(form.format),
                disposition  |-> <<"attachment; filename=\"resized-image.", form.format, "\"">>,
                cacheControl |-> "no-store, no-cache, must-revalidate, proxy-revalidate",
                pragma       |-> "no-cache",
                expires      |-> "0"]]

\* The conditions of the five validations of POST.
NoImage(form) == ImageMissing(form.image)

UnsupportedType(form) == ImageType(form.image) \notin ServerAllowedTypes

InvalidDimensions(form) ==
  LET width  == parseInt(form.width)
      height == parseInt(form.height)
  IN  Falsy(width) \/ Falsy(height) \/ NumLe(width, Num(0)) \/ NumLe(height, Num(0))

\* As InvalidFormat, with an omitted format let through (to be defaulted later).
InvalidFormat_OmittedAllowed(form) == form.format \notin ServerFormats \cup {Null}

InvalidFormat(form) == form.format \notin ServerFormats

InvalidQuality(form) ==
  LET quality == parseInt(form.quality)
  IN  Falsy(quality) \/ NumLt(quality, Num(1)) \/ NumGt(quality, Num(100))

\* As ValidationError, without the format check.
ValidationError_NoFormatCheck(form) ==
  IF NoImage(form) THEN ErrNoImage
  ELSE IF UnsupportedType(form) THEN ErrUnsupportedType
  ELSE IF InvalidDimensions(form) THEN ErrInvalidDimensions
  ELSE IF InvalidQuality(form) THEN ErrInvalidQuality
  ELSE Null

\* As ValidationError, with the dimensions validated before the MIME type.
ValidationError_DimensionsFirst(form) ==
  IF NoImage(form) THEN ErrNoImage
  ELSE IF InvalidDimensions(form) THEN ErrInvalidDimensions
  ELSE IF UnsupportedType(form) THEN ErrUnsupportedType
  ELSE IF InvalidFormat(form) THEN ErrInvalidFormat
  ELSE IF InvalidQuality(form) THEN ErrInvalidQuality
  ELSE Null

\* The validations in the order POST makes them: the message of the first one
\* that fails, Null when all pass.
ValidationError(form) ==
  IF NoImage(form) THEN ErrNoImage
  ELSE IF UnsupportedType(form) THEN ErrUnsupportedType
  ELSE IF InvalidDimensions(form) THEN ErrInvalidDimensions
  ELSE IF InvalidFormat(form) THEN ErrInvalidFormat
  ELSE IF InvalidQuality(form) THEN ErrInvalidQuality
  ELSE Null

\* As POSTResponse, with the message of the caught error sent to the caller.
POSTResponse_SendsCause(form, codecOk) ==
  IF ValidationError(form) # Null THEN JsonError(400, ValidationError(form))
  ELSE IF codecOk THEN Success(form)
  ELSE JsonError(500, "Input buffer contains unsupported image format")

\* As POSTResponse, with the MIME type read before the image is tested for null:
\* the read throws on a missing image and the catch answers.
POSTResponse_TypeReadFirst(form, codecOk) ==
  IF NoImage(form) THEN JsonError(500, ErrProcessing)
  ELSE IF ValidationError(form) # Null THEN JsonError(400, ValidationError(form))
  ELSE IF codecOk THEN Success(form)
  ELSE JsonError(500, ErrProcessing)

\* POST: the response to a form; codecOk is whether the image library succeeds.
POSTResponse(form, codecOk) ==
  IF ValidationError(form) # Null THEN JsonError(400, ValidationError(form))
  ELSE IF codecOk THEN Success(form)
  ELSE JsonError(500, ErrProcessing)

VARIABLES
  request,        \* endpoint: the last request handled
  response,       \* endpoint: its response
  sharpCall,      \* endpoint: the call made to the image library, NoCall when none
  originalImages, \* client: the staged images, in upload order
  resizedImages,  \* client: the cached results, a set of [id, result] entries
  isLoading,      \* client: a batch resize is shown as running
  error,          \* client: the error shown, NoError for null
  resizeOptions,  \* client: width, height, quality, maintainAspectRatio
  pending,        \* client: the file reads of handleFileSelect not yet loaded (a bag)
  batches,        \* client: the handleResize calls that are awaiting a response
  nextId,         \* client: the number of identifiers drawn so far, plus one
  downloads       \* client: the archives the browser was made to download, in order

serverVars == <<request, response, sharpCall>>

clientVars ==
  <<originalImages, resizedImages, isLoading, error, resizeOptions, pending, batches,
    nextId, downloads>>

vars == <<serverVars, clientVars>>

NoForm == [image |-> NoFile, width |-> Absent, height |-> Absent, format |-> Null,
           quality |-> Absent]

NoRequest == [method |-> "none", form |-> NoForm]

NoResponse == [status |-> 0, error |-> Null, body |-> "none", headers |-> NoHeaders]

\* Field values a client can put in the form.
DimInputs ==
  {Absent} \cup
  {Text(s) : s \in {<<>>, <<"0">>, <<"5">>, <<"-", "5">>, <<"x">>, <<"5", "x">>,
                    <<"1", ".", "5">>, <<" ", "5">>, <<"+", "5">>, <<"0", "x", "1">>,
                    <<"8", "0", "0">>}}

QualityInputs ==
  {Absent} \cup
  {Text(s) : s \in {<<>>, <<"0">>, <<"1">>, <<"5", "0">>, <<"9", "0">>, <<"1", "0", "0">>,
                    <<"1", "0", "1">>, <<"a", "b", "c">>, <<"5", "x">>, <<"-", "1">>}}

FormatInputs == {Null, "jpeg", "jpg", "png", "webp", "gif", "JPEG", ""}

ImageInputs ==
  {NoFile, TextField(""), TextField("hello")}
    \cup {FileField(t) : t \in ServerAllowedTypes \cup {"image/gif"}}

Forms ==
  [image : ImageInputs, width : DimInputs, height : DimInputs,
   format : FormatInputs, quality : QualityInputs]

\* No request has reached the endpoint.
ServerIdle ==
  /\ request = NoRequest
  /\ response = NoResponse
  /\ sharpCall = NoCall

\* A form that passes every validation of POST.
SampleForm ==
  [image |-> FileField("image/png"), width |-> Text(<<"5">>), height |-> Text(<<"5">>),
   format |-> "png", quality |-> Text(<<"5", "0">>)]

\* The requests the endpoint is sent: POST with any form; GET, PUT and DELETE
\* with no body or with a form POST would accept.
Requests ==
  {[method |-> "POST", form |-> form] : form \in Forms}
    \cup {[method |-> m, form |-> f] : m \in {"GET", "PUT", "DELETE"}, f \in {NoForm, SampleForm}}

\* The endpoint has received a request and has not answered it yet.
ServerInit ==
  /\ request \in Requests
  /\ response = NoResponse
  /\ sharpCall = NoCall

Unanswered == response = NoResponse

\* export async function POST(request)
POST(codecOk) ==
  /\ request.method = "POST"
  /\ Unanswered
  /\ response' = POSTResponse(request.form, codecOk)
  /\ sharpCall' = IF ValidationError(request.form) = Null
                    THEN SharpCall(request.form) ELSE NoCall
  /\ UNCHANGED request
  /\ UNCHANGED clientVars

\* As MethodNotAllowed, with PUT and DELETE left to the framework, which
\* answers a method that has no handler with a 405 that has no body.
MethodNotAllowed_OnlyGET ==
  /\ request.method \in {"GET", "PUT", "DELETE"}
  /\ Unanswered
  /\ response' = IF request.method = "GET" THEN JsonError(405, ErrMethod)
                 ELSE [status |-> 405, error |-> Null, body |-> "none", headers |-> NoHeaders]
  /\ UNCHANGED <<request, sharpCall>>
  /\ UNCHANGED clientVars

\* export async function GET(), PUT(), DELETE()
MethodNotAllowed ==
  /\ request.method \in {"GET", "PUT", "DELETE"}
  /\ Unanswered
  /\ response' = JsonError(405, ErrMethod)
  /\ UNCHANGED <<request, sharpCall>>
  /\ UNCHANGED clientVars

(***************************************************************************)
(* The client session controller.                                          *)
(***************************************************************************)

MAX_FILE_SIZE == 5 * 1024 * 1024

MAX_IMAGES == 10

ALLOWED_TYPES == {"image/jpeg", "image/jpg", "image/png", "image/webp"}

\* The files a user can select.  A file is named by an atom; its name as
\* characters, MIME type, size in bytes and natural pixel size are tables.
AllFiles == {"a.png", "b.jpg", "c.JPEG", "noext", "big.png", "d.gif", "tall.png"}

FileNameChars(f) ==
  CASE f = "a.png"   -> <<"a", ".", "p", "n", "g">>
    [] f = "b.jpg"   -> <<"b", ".", "j", "p", "g">>
    [] f = "c.JPEG"  -> <<"c", ".", "J", "P", "E", "G">>
    [] f = "noext"   -> <<"n", "o", "e", "x", "t">>
    [] f = "big.png" -> <<"b", "i", "g", ".", "p", "n", "g">>
    [] f = "d.gif"   -> <<"d", ".", "g", "i", "f">>
    [] f = "tall.png" -> <<"t", "a", "l", "l", ".", "p", "n", "g">>

FileType(f) ==
  CASE f \in {"a.png", "big.png", "noext", "tall.png"} -> "image/png"
    [] f \in {"b.jpg", "c.JPEG"} -> "image/jpeg"
    [] f = "d.gif" -> "image/gif"

FileSize(f) ==
  CASE f = "big.png" -> 6 * 1024 * 1024
    [] f = "b.jpg" -> MAX_FILE_SIZE
    [] OTHER -> 1024

NaturalWidth(f) == IF f \in {"a.png", "b.jpg"} THEN 4 ELSE 3

NaturalHeight(f) ==
  IF f \in {"a.png", "b.jpg"} THEN 2 ELSE IF f = "tall.png" THEN 22 ELSE 3

\* String.prototype.toLowerCase on the letters file names are written with.
ToLowerChar(c) ==
  CASE c = "J" -> "j" [] c = "P" -> "p" [] c = "E" -> "e" [] c = "G" -> "g"
    [] c = "N" -> "n" [] OTHER -> c

ToLowerCase(s) == [i \in 1..Len(s) |-> ToLowerChar(s[i])]

\* name.split('.').pop(): what follows the last dot, the whole name when it has none.
RECURSIVE AfterLastDot(_)
AfterLastDot(s) ==
  IF \E i \in 1..Len(s) : s[i] = "." THEN AfterLastDot(Tail(s)) ELSE s

getExt(f) ==
  LET ext == ToLowerCase(AfterLastDot(FileNameChars(f)))
  IN  IF ext = <<"j", "p", "e", "g">> THEN "jpeg"
      ELSE IF ext = <<"j", "p", "g">> THEN "jpg"
      ELSE IF ext = <<"p", "n", "g">> THEN "png"
      ELSE "webp"

NoError == [text |-> "", file |-> "", count |-> 0]

ErrFileSize == [text |-> "File size must be less than 5MB", file |-> "", count |-> 0]

ErrFileType ==
  [text |-> "Please upload a valid image file (JPEG, PNG, or WebP)", file |-> "",
   count |-> 0]

\* `Maximum 10 images allowed. You can upload ${n} more images.`
ErrMaxImages(n) ==
  [text |-> "Maximum 10 images allowed. You can upload more images.", file |-> "",
   count |-> n]

\* `Failed to resize image: ${name}`
ErrResizeFailed(name) == [text |-> "Failed to resize image: ", file |-> name, count |-> 0]

\* The message of the error a rejected fetch carries.
ErrFetch == [text |-> "Failed to fetch", file |-> "", count |-> 0]

\* As validateFile, without the size check.
validateFile_NoSizeCheck(f) ==
  IF FileType(f) \notin ALLOWED_TYPES THEN ErrFileType ELSE NoError

validateFile(f) ==
  IF FileSize(f) > MAX_FILE_SIZE THEN ErrFileSize
  ELSE IF FileType(f) \notin ALLOWED_TYPES THEN ErrFileType
  ELSE NoError

\* The reads handleFileSelect starts: one for each file that passes validateFile,
\* each closing over the staged count of the render the handler belongs to, which
\* img.onload only tests for being 0.
RECURSIVE Readers(_, _)
Readers(files, len) ==
  IF files = <<>> THEN EmptyBag
  ELSE (IF validateFile(Head(files)) = NoError
          THEN SetToBag({[file |-> Head(files), empty |-> len = 0]})
          ELSE EmptyBag) (+) Readers(Tail(files), len)

\* The error the forEach leaves: that of the last file that fails validateFile.
RECURSIVE SelectError(_)
SelectError(files) ==
  IF files = <<>> THEN NoError
  ELSE IF validateFile(files[Len(files)]) # NoError THEN validateFile(files[Len(files)])
  ELSE SelectError(SubSeq(files, 1, Len(files) - 1))

\* The cached results: an object keyed by image id.
Keys(m) == {e.id : e \in m}

Get(m, id) == (CHOOSE e \in m : e.id = id).result

Put(m, id, r) == {e \in m : e.id # id} \cup {[id |-> id, result |-> r]}

Delete(m, id) == {e \in m : e.id # id}

\* Number.prototype.toString for an integer.
DecimalChar(d) == <<"0", "1", "2", "3", "4", "5", "6", "7", "8", "9">>[d + 1]

RECURSIVE Decimal(_)
Decimal(n) ==
  IF n < 10 THEN <<DecimalChar(n)>> ELSE Decimal(n \div 10) \o <<DecimalChar(n % 10)>>

NumberToString(n) == IF n < 0 THEN <<"-">> \o Decimal(0 - n) ELSE Decimal(n)

\* Math.round(num / den) for den > 0: halves round towards plus infinity.
MathRound(num, den) == (2 * num + den) \div (2 * den)

Abs(x) == IF x < 0 THEN 0 - x ELSE x

RECURSIVE Pow2(_)
Pow2(n) == IF n = 0 THEN 1 ELSE 2 * Pow2(n - 1)

\* The binary exponent of num / den (both positive): the e with
\* 2^e <= num / den < 2^(e + 1).
RECURSIVE Exponent(_, _)
Exponent(num, den) ==
  IF num >= den
    THEN IF num >= 2 * den THEN 1 + Exponent(num, 2 * den) ELSE 0
    ELSE Exponent(2 * num, den) - 1

\* (x * 2^n) % m.
RECURSIVE ShiftMod(_, _, _)
ShiftMod(x, n, m) == IF n = 0 THEN x % m ELSE ShiftMod((2 * x) % m, n - 1, m)

\* aspectRatio = w / h is a Number, an IEEE-754 double: the quotient rounded to
\* 53 significant bits, to nearest, ties to even.  With e the exponent of w / h
\* the double is w / h + RatioError(w, h) / (h * 2^(52 - e)): the remainder r of
\* w * 2^(52 - e) by h is dropped when less than half of h, and otherwise the
\* significand is rounded up, h - r being added.
RatioError(w, h) ==
  LET R   == ShiftMod(w, 52 - Exponent(w, h), 2 * h)
      r   == R % h
      odd == R \div h
  IN  IF 2 * r > h \/ (2 * r = h /\ odd = 1) THEN h - r ELSE 0 - r

\* Math.round(v * aspectRatio), aspectRatio the double of w / h, the product
\* rounded to a double too.  The error of aspectRatio is far smaller than the
\* distance of v * w / h from a half unless v * w / h is a half itself; then the
\* product lies below the half when the error pulls it to that side, and
\* Math.round yields the integer below unless the product is so near the half
\* (within half the gap to the double before it) that it rounds back onto it.
RoundProduct(v, w, h) ==
  LET P   == v * w
      n0  == MathRound(P, h)
      tie == (2 * P) % h = 0 /\ ((2 * P) \div h) % 2 = 1
      d   == RatioError(w, h)
  IN  IF ~tie \/ v * d >= 0 THEN n0
      ELSE LET E    == Exponent(w, h) - Exponent(Abs(P), h)
               a    == (IF 2 * P = h THEN 4 ELSE 2) * Abs(v * d)
               back == IF E >= 0 THEN a * Pow2(E) <= h ELSE a <= h * Pow2(0 - E)
           IN  IF back THEN n0 ELSE n0 - 1

\* Math.round(v / aspectRatio), in the same way: the quotient lies below the
\* half v * h / w when the error of aspectRatio makes the divisor too large.
RoundQuotient(v, w, h) ==
  LET P   == v * h
      n0  == MathRound(P, w)
      tie == (2 * P) % w = 0 /\ ((2 * P) \div w) % 2 = 1
      d   == RatioError(w, h)
  IN  IF ~tie \/ v * d <= 0 THEN n0
      ELSE LET E    == Exponent(Abs(P), w) - Exponent(w, h)
               a    == (IF 2 * P = w THEN 2 ELSE 1) * Abs((2 * P) \div w) * Abs(d)
               back == IF E >= 0
                         THEN (IF v > 0 THEN a <= w * Pow2(E) ELSE a < w * Pow2(E))
                         ELSE (IF v > 0 THEN a * Pow2(0 - E) <= w ELSE a * Pow2(0 - E) < w)
           IN  IF back THEN n0 ELSE n0 - 1

ClientInit ==
  /\ originalImages = <<>>
  /\ resizedImages = {}
  /\ isLoading = FALSE
  /\ error = NoError
  /\ resizeOptions =
       [width |-> 800, height |-> 600, quality |-> 100, maintainAspectRatio |-> TRUE]
  /\ pending = EmptyBag
  /\ batches = <<>>
  /\ nextId = 1
  /\ downloads = <<>>

Init == ServerIdle /\ ClientInit

\* As handleFileSelect, without the early return of the count check: the files
\* are validated and read, and the last setError decides the error.
handleFileSelect_NoReturn(files) ==
  /\ Len(files) > 0
  /\ pending' = pending (+) Readers(files, Len(originalImages))
  /\ error' = SelectError(files)
  /\ UNCHANGED <<originalImages, resizedImages, isLoading, resizeOptions, batches, nextId, downloads>>
  /\ UNCHANGED serverVars

\* handleFileSelect(files), reached from the file input and from a drop.
handleFileSelect(files) ==
  /\ Len(files) > 0
  /\ IF Len(originalImages) + Len(files) > MAX_IMAGES
       THEN /\ error' = ErrMaxImages(MAX_IMAGES - Len(originalImages))
            /\ UNCHANGED pending
       ELSE /\ pending' = pending (+) Readers(files, Len(originalImages))
            /\ error' = SelectError(files)
  /\ UNCHANGED <<originalImages, resizedImages, isLoading, resizeOptions, batches, nextId, downloads>>
  /\ UNCHANGED serverVars

\* img.onload of one read: the image is staged under a fresh random id.
ImageLoaded(p) ==
  /\ p \in BagToSet(pending)
  /\ pending' = pending (-) SetToBag({p})
  /\ originalImages' =
       Append(originalImages,
              [file |-> p.file, width |-> NaturalWidth(p.file),
               height |-> NaturalHeight(p.file), id |-> nextId, ext |-> getExt(p.file)])
  /\ nextId' = nextId + 1
  /\ resizeOptions' =
       IF p.empty
         THEN [resizeOptions EXCEPT !.width = NaturalWidth(p.file),
                                    !.height = NaturalHeight(p.file)]
         ELSE resizeOptions
  /\ UNCHANGED <<resizedImages, isLoading, error, batches, downloads>>
  /\ UNCHANGED serverVars

\* The settings panel, with its Resize and Clear All buttons, is rendered only
\* while an image is staged.
PanelShown == Len(originalImages) > 0

handleDimensionChange(type, value) ==
  /\ PanelShown
  /\ LET firstImage == originalImages[1]
     IN  resizeOptions' =
           IF resizeOptions.maintainAspectRatio
             THEN IF type = "width"
                    THEN [resizeOptions EXCEPT
                            !.width = value,
                            !.height = RoundQuotient(value, firstImage.width, firstImage.height)]
                    ELSE [resizeOptions EXCEPT
                            !.height = value,
                            !.width = RoundProduct(value, firstImage.width, firstImage.height)]
             ELSE IF type = "width"
                    THEN [resizeOptions EXCEPT !.width = value]
                    ELSE [resizeOptions EXCEPT !.height = value]
  /\ UNCHANGED <<originalImages, resizedImages, isLoading, error, pending, batches, nextId, downloads>>
  /\ UNCHANGED serverVars

\* The quality slider.
setQuality(q) ==
  /\ PanelShown
  /\ resizeOptions' = [resizeOptions EXCEPT !.quality = q]
  /\ UNCHANGED <<originalImages, resizedImages, isLoading, error, pending, batches, nextId, downloads>>
  /\ UNCHANGED serverVars

\* The aspect-ratio checkbox.
setMaintainAspectRatio(b) ==
  /\ PanelShown
  /\ resizeOptions' = [resizeOptions EXCEPT !.maintainAspectRatio = b]
  /\ UNCHANGED <<originalImages, resizedImages, isLoading, error, pending, batches, nextId, downloads>>
  /\ UNCHANGED serverVars

\* The subtype of a MIME type, as a format name.
SubType(t) ==
  CASE t = "image/jpeg" -> "jpeg" [] t = "image/png" -> "png" [] t = "image/webp" -> "webp"

\* As FormData, with chained resizing: once an image has a cached result, that
\* result's blob is what is sent, with the format of the blob's type.
FormData_FromResult(images, options, i) ==
  LET chained == images[i].id \in Keys(resizedImages)
      type    == IF chained THEN mimeTypes(Get(resizedImages, images[i].id).format)
                 ELSE FileType(images[i].file)
  IN  [image   |-> FileField(type),
       width   |-> Text(NumberToString(options.width)),
       height  |-> Text(NumberToString(options.height)),
       format  |-> IF chained THEN SubType(type) ELSE images[i].ext,
       quality |-> Text(NumberToString(options.quality))]

\* The form handleResize builds for the image at index i of its staged list.
FormData(images, options, i) ==
  [image   |-> FileField(FileType(images[i].file)),
   width   |-> Text(NumberToString(options.width)),
   height  |-> Text(NumberToString(options.height)),
   format  |-> images[i].ext,
   quality |-> Text(NumberToString(options.quality))]

\* The request a running batch is awaiting the response of.
InFlight(b) == FormData(b.images, b.options, b.i)

\* As ResultOf, with the blob taken from the response to the batch's 1st request.
ResultOf_FirstResponse(b) ==
  [file |-> b.images[1].file, format |-> b.images[1].ext,
   width |-> b.options.width, height |-> b.options.height, quality |-> b.options.quality]

\* What a success response is turned into: the object URL of its blob.
ResultOf(b) ==
  [file |-> b.images[b.i].file, format |-> b.images[b.i].ext,
   width |-> b.options.width, height |-> b.options.height, quality |-> b.options.quality]

\* response.ok: the status is in the range 200-299.
ok(r) == r.status \in 200..299

RemoveAt(s, k) == SubSeq(s, 1, k - 1) \o SubSeq(s, k + 1, Len(s))

\* handleResize up to its first await: the Resize button is disabled while
\* isLoading; the handler closes over the staged list and the settings of its render.
handleResize ==
  /\ PanelShown
  /\ ~isLoading
  /\ isLoading' = TRUE
  /\ error' = NoError
  /\ batches' = Append(batches, [images |-> originalImages, options |-> resizeOptions,
                                 i |-> 1, newResizedImages |-> {}])
  /\ UNCHANGED <<originalImages, resizedImages, resizeOptions, pending, nextId, downloads>>
  /\ UNCHANGED serverVars

\* As ResponseOk, with each result put in the cached results as it arrives.
ResponseOk_StoresEach(k) ==
  /\ k \in 1..Len(batches)
  /\ LET b   == batches[k]
         acc == Put(b.newResizedImages, b.images[b.i].id, ResultOf(b))
     IN  /\ resizedImages' = Put(resizedImages, b.images[b.i].id, ResultOf(b))
         /\ IF b.i < Len(b.images)
              THEN /\ batches' = [batches EXCEPT ![k].i = b.i + 1,
                                                 ![k].newResizedImages = acc]
                   /\ UNCHANGED isLoading
              ELSE /\ batches' = RemoveAt(batches, k)
                   /\ isLoading' = FALSE
         /\ ok(POSTResponse(InFlight(b), TRUE))
  /\ UNCHANGED <<originalImages, error, resizeOptions, pending, nextId, downloads>>
  /\ UNCHANGED serverVars

\* As ResponseOk, with the settings read anew for the next request.
ResponseOk_LiveSettings(k) ==
  /\ k \in 1..Len(batches)
  /\ LET b   == batches[k]
         acc == Put(b.newResizedImages, b.images[b.i].id, ResultOf(b))
     IN  /\ IF b.i < Len(b.images)
              THEN /\ batches' = [batches EXCEPT ![k].i = b.i + 1,
                                                 ![k].newResizedImages = acc,
                                                 ![k].options = resizeOptions]
                   /\ UNCHANGED <<resizedImages, isLoading>>
              ELSE /\ batches' = RemoveAt(batches, k)
                   /\ resizedImages' = acc
                   /\ isLoading' = FALSE
         /\ ok(POSTResponse(InFlight(b), TRUE))
  /\ UNCHANGED <<originalImages, error, resizeOptions, pending, nextId, downloads>>
  /\ UNCHANGED serverVars

\* handleResize after an await: the response of batch k is OK, as the endpoint
\* answers the awaited request when processing succeeds.  The result is put in
\* the batch's own map; the next image is sent, or, after the last one, the map
\* replaces the cached results and isLoading is reset.
ResponseOk(k) ==
  /\ k \in 1..Len(batches)
  /\ LET b   == batches[k]
         acc == Put(b.newResizedImages, b.images[b.i].id, ResultOf(b))
     IN  /\ IF b.i < Len(b.images)
              THEN /\ batches' = [batches EXCEPT ![k].i = b.i + 1,
                                                 ![k].newResizedImages = acc]
                   /\ UNCHANGED <<resizedImages, isLoading>>
              ELSE /\ batches' = RemoveAt(batches, k)
                   /\ resizedImages' = acc
                   /\ isLoading' = FALSE
         /\ ok(POSTResponse(InFlight(b), TRUE))
  /\ UNCHANGED <<originalImages, error, resizeOptions, pending, nextId, downloads>>
  /\ UNCHANGED serverVars

\* As ResponseNotOk, with the results obtained so far stored by the catch.
ResponseNotOk_StoresPartial(k) ==
  /\ k \in 1..Len(batches)
  /\ LET b == batches[k]
     IN  /\ error' = ErrResizeFailed(b.images[b.i].file)
         /\ resizedImages' = b.newResizedImages
         /\ isLoading' = FALSE
         /\ batches' = RemoveAt(batches, k)
         /\ \E codecOk \in BOOLEAN : ~ok(POSTResponse(InFlight(b), codecOk))
  /\ UNCHANGED <<originalImages, resizeOptions, pending, nextId, downloads>>
  /\ UNCHANGED serverVars

\* As ResponseNotOk, with the failure caught inside the loop: the error is set
\* and the loop goes on with the next image.
ResponseNotOk_GoesOn(k) ==
  /\ k \in 1..Len(batches)
  /\ LET b == batches[k]
     IN  /\ error' = ErrResizeFailed(b.images[b.i].file)
         /\ IF b.i < Len(b.images)
              THEN /\ batches' = [batches EXCEPT ![k].i = b.i + 1]
                   /\ UNCHANGED <<resizedImages, isLoading>>
              ELSE /\ batches' = RemoveAt(batches, k)
                   /\ resizedImages' = b.newResizedImages
                   /\ isLoading' = FALSE
         /\ \E codecOk \in BOOLEAN : ~ok(POSTResponse(InFlight(b), codecOk))
  /\ UNCHANGED <<originalImages, resizeOptions, pending, nextId, downloads>>
  /\ UNCHANGED serverVars

\* handleResize after an await: the response of batch k is not OK, as the
\* endpoint answers the awaited request (the 400 of a failed validation, or the
\* 500 of a failed processing).  The throw ends the loop.
ResponseNotOk(k) ==
  /\ k \in 1..Len(batches)
  /\ LET b == batches[k]
     IN  /\ error' = ErrResizeFailed(b.images[b.i].file)
         /\ isLoading' = FALSE
         /\ batches' = RemoveAt(batches, k)
         /\ \E codecOk \in BOOLEAN : ~ok(POSTResponse(InFlight(b), codecOk))
  /\ UNCHANGED <<originalImages, resizedImages, resizeOptions, pending, nextId, downloads>>
  /\ UNCHANGED serverVars

\* handleResize after an await: the fetch of batch k is rejected (no response).
FetchRejected(k) ==
  /\ k \in 1..Len(batches)
  /\ error' = ErrFetch
  /\ isLoading' = FALSE
  /\ batches' = RemoveAt(batches, k)
  /\ UNCHANGED <<originalImages, resizedImages, resizeOptions, pending, nextId, downloads>>
  /\ UNCHANGED serverVars

\* As removeImage, without the deletion of the cached result.
removeImage_KeepsResult(imageId) ==
  /\ \E i \in 1..Len(originalImages) : originalImages[i].id = imageId
  /\ originalImages' = SelectSeq(originalImages, LAMBDA img : img.id # imageId)
  /\ UNCHANGED <<resizedImages, isLoading, error, resizeOptions, pending, batches, nextId,
                 downloads>>
  /\ UNCHANGED serverVars

removeImage(imageId) ==
  /\ \E i \in 1..Len(originalImages) : originalImages[i].id = imageId
  /\ originalImages' = SelectSeq(originalImages, LAMBDA img : img.id # imageId)
  /\ resizedImages' = Delete(resizedImages, imageId)
  /\ UNCHANGED <<isLoading, error, resizeOptions, pending, batches, nextId, downloads>>
  /\ UNCHANGED serverVars

\* As clearAll, without the reset of the cached results.
clearAll_KeepsResults ==
  /\ PanelShown
  /\ originalImages' = <<>>
  /\ error' = NoError
  /\ isLoading' = FALSE
  /\ UNCHANGED <<resizedImages, resizeOptions, pending, batches, nextId, downloads>>
  /\ UNCHANGED serverVars

clearAll ==
  /\ PanelShown
  /\ originalImages' = <<>>
  /\ resizedImages' = {}
  /\ error' = NoError
  /\ isLoading' = FALSE
  /\ UNCHANGED <<resizeOptions, pending, batches, nextId, downloads>>
  /\ UNCHANGED serverVars

\* The values of Math.random().toString(36).substring(2, 10).
RandomStrings == {"r1", "r2"}

\* randomName(ext): `${rand}_byDimensify.${ext}`.
randomName(rand, ext) == [rand |-> rand, suffix |-> "_byDimensify.", ext |-> ext]

ErrZip ==
  [text |-> "Failed to create ZIP file. Please try downloading individually.",
   file |-> "", count |-> 0]

\* zip.file(name, blob): the entry of that name is added, or replaced.  An entry
\* is written with the id of the image whose result its blob is.
ZipFile(zip, name, id, blob) ==
  {e \in zip : e.name # name} \cup {[name |-> name, id |-> id, blob |-> blob]}

\* The orders the keys of an object can be enumerated in.
KeyOrders(S) ==
  {o \in [1..Cardinality(S) -> S] : \A i, j \in 1..Cardinality(S) : o[i] = o[j] => i = j}

\* The loop of handleDownloadAll over the keys, in the order given: a key with
\* no staged image of that id is skipped.
RECURSIVE ZipOf(_, _, _, _)
ZipOf(order, rand, images, results) ==
  IF order = <<>> THEN {}
  ELSE LET n        == Len(order)
           imageId  == order[n]
           zip      == ZipOf(SubSeq(order, 1, n - 1), rand, images, results)
           original == SelectSeq(images, LAMBDA img : img.id = imageId)
       IN  IF original # <<>>
             THEN ZipFile(zip, randomName(rand[imageId], original[1].ext), imageId,
                          Get(results, imageId))
             ELSE zip

\* The Download All button is rendered while an image is staged and a result
\* is cached.
DownloadAllShown == PanelShown /\ resizedImages # {}

\* handleDownloadAll: it works on the staged list and the cached results of the
\* render it belongs to and writes no state while it awaits, so the archive is
\* settled when it is invoked.  When the import of the library, the fetch of a
\* blob or the generation fails, the catch sets the error and nothing is downloaded.
handleDownloadAll(zipOk) ==
  /\ DownloadAllShown
  /\ IF zipOk
       THEN /\ \E order \in KeyOrders(Keys(resizedImages)),
                  rand \in [Keys(resizedImages) -> RandomStrings] :
                 downloads' =
                   Append(downloads,
                          [name |-> "images_byDimensify.zip",
                           entries |-> ZipOf(order, rand, originalImages, resizedImages)])
            /\ UNCHANGED error
       ELSE /\ error' = ErrZip
            /\ UNCHANGED downloads
  /\ UNCHANGED <<originalImages, resizedImages, isLoading, resizeOptions, pending, batches,
                 nextId>>
  /\ UNCHANGED serverVars

(***************************************************************************)
(* Specifications.                                                         *)
(***************************************************************************)

\* Identifiers drawn in a session.
MaxIds == 3

\* Files in one selection.
MaxSelect == 2

\* handleResize calls awaiting a response at a time.
MaxBatches == 2

\* Identifiers drawn in a staging-only session.
MaxStagingIds == 11

SessionFiles == {"a.png", "b.jpg"}

DimValues == {0}

FileLists(F, n) == UNION {[1..k -> F] : k \in 1..n}

\* Every read that is started can complete within the ids the session may draw.
Room(files, ids) == (nextId - 1) + BagCardinality(pending) + Len(files) <= ids

Next ==
  \/ \E files \in FileLists(SessionFiles, MaxSelect) :
       Room(files, MaxIds) /\ handleFileSelect(files)
  \/ \E p \in BagToSet(pending) : ImageLoaded(p)
  \/ \E type \in {"width", "height"}, value \in DimValues : handleDimensionChange(type, value)
  \/ (Len(batches) < MaxBatches /\ handleResize)
  \/ \E k \in 1..Len(batches) : ResponseOk(k)
  \/ \E k \in 1..Len(batches) : ResponseNotOk(k)
  \/ \E k \in 1..Len(batches) : FetchRejected(k)
  \/ \E i \in 1..Len(originalImages) : removeImage(originalImages[i].id)
  \/ clearAll

Spec == Init /\ [][Next]_vars

\* The endpoint alone: one request of Requests, and its handling.
InitServer == ServerInit /\ ClientInit

NextServer ==
  \/ \E codecOk \in BOOLEAN : POST(codecOk)
  \/ MethodNotAllowed

SpecServer == InitServer /\ [][NextServer]_vars

\* Staging alone: selections of one valid file kind, loads, removals, clear all.
NextStaging ==
  \/ \E files \in FileLists({"a.png"}, MaxSelect) :
       Room(files, MaxStagingIds) /\ handleFileSelect(files)
  \/ \E p \in BagToSet(pending) : ImageLoaded(p)
  \/ \E i \in 1..Len(originalImages) : removeImage(originalImages[i].id)
  \/ clearAll

SpecStaging == Init /\ [][NextStaging]_vars

\* Identifiers drawn in a session of selections with files that fail validateFile.
MaxSelectIds == 4

SelectFiles == {"a.png", "big.png", "d.gif"}

\* Staging with files that fail validateFile among the selected ones.
NextSelect ==
  \/ \E files \in FileLists(SelectFiles, MaxSelect) :
       Room(files, MaxSelectIds) /\ handleFileSelect(files)
  \/ \E p \in BagToSet(pending) : ImageLoaded(p)
  \/ \E i \in 1..Len(originalImages) : removeImage(originalImages[i].id)
  \/ clearAll

SpecSelect == Init /\ [][NextSelect]_vars

\* Identifiers drawn in a session of settings edits.
MaxSettingsIds == 2

SettingsFiles == {"a.png", "tall.png"}

SettingsDims == {5, 55}

QualityValues == {50}

\* The settings panel: the staged images and the edits of width, height,
\* quality and the aspect-ratio lock.
NextSettings ==
  \/ \E files \in FileLists(SettingsFiles, MaxSelect) :
       Room(files, MaxSettingsIds) /\ handleFileSelect(files)
  \/ \E p \in BagToSet(pending) : ImageLoaded(p)
  \/ \E type \in {"width", "height"}, value \in SettingsDims :
       handleDimensionChange(type, value)
  \/ \E q \in QualityValues : setQuality(q)
  \/ \E b \in BOOLEAN : setMaintainAspectRatio(b)
  \/ \E i \in 1..Len(originalImages) : removeImage(originalImages[i].id)

SpecSettings == Init /\ [][NextSettings]_vars

\* Identifiers drawn in a session of resizes under edited settings.
MaxBatchIds == 2

BatchDims == {5}

\* Batch resizes of the staged images, with the settings edited before, between
\* and during the batches.
NextBatch ==
  \/ \E files \in FileLists(SessionFiles, MaxSelect) :
       Room(files, MaxBatchIds) /\ handleFileSelect(files)
  \/ \E p \in BagToSet(pending) : ImageLoaded(p)
  \/ \E type \in {"width", "height"}, value \in BatchDims :
       handleDimensionChange(type, value)
  \/ \E q \in QualityValues : setQuality(q)
  \/ handleResize
  \/ \E k \in 1..Len(batches) : ResponseOk(k)
  \/ \E k \in 1..Len(batches) : ResponseNotOk(k)
  \/ \E k \in 1..Len(batches) : FetchRejected(k)
  \/ \E i \in 1..Len(originalImages) : removeImage(originalImages[i].id)

SpecBatch == Init /\ [][NextBatch]_vars

\* Identifiers drawn in a session with downloads.
MaxDownloadIds == 2

\* Archives downloaded in a session.
MaxDownloads == 1

\* Resizes, removals and Download All.
NextDownload ==
  \/ \E files \in FileLists(SessionFiles, MaxSelect) :
       Room(files, MaxDownloadIds) /\ handleFileSelect(files)
  \/ \E p \in BagToSet(pending) : ImageLoaded(p)
  \/ handleResize
  \/ \E k \in 1..Len(batches) : ResponseOk(k)
  \/ \E k \in 1..Len(batches) : ResponseNotOk(k)
  \/ \E i \in 1..Len(originalImages) : removeImage(originalImages[i].id)
  \/ \E zipOk \in BOOLEAN : Len(downloads) < MaxDownloads /\ handleDownloadAll(zipOk)

SpecDownload == Init /\ [][NextDownload]_vars

(***************************************************************************)
(* Properties of the endpoint (checked under SpecServer).                  *)
(***************************************************************************)

\* The endpoint has answered a POST.
AnsweredPOST == request.method = "POST" /\ ~Unanswered

ValidationMessages ==
  <<ErrNoImage, ErrUnsupportedType, ErrInvalidDimensions, ErrInvalidFormat,
    ErrInvalidQuality>>

\* Whether the n-th validation, in the documented order, fails on the form.
CheckFails(n, form) ==
  CASE n = 1 -> NoImage(form)
    [] n = 2 -> UnsupportedType(form)
    [] n = 3 -> InvalidDimensions(form)
    [] n = 4 -> InvalidFormat(form)
    [] n = 5 -> InvalidQuality(form)

FailsValidation(form) == \E n \in 1..5 : CheckFails(n, form)

\* C1: a POST that fails validation is answered with the message of the first
\* check, in the order missing image, MIME, dimensions, format, quality, that
\* fails; a file of type image/gif is answered with the unsupported-type error
\* whatever width, height, format and quality are.
C1_FirstFailingCheckReported ==
  AnsweredPOST =>
    /\ \A n \in 1..5 :
         (CheckFails(n, request.form) /\ \A m \in 1..(n - 1) : ~CheckFails(m, request.form))
           => response.error = ValidationMessages[n]
    /\ request.form.image = FileField("image/gif")
         => response.status = 400 /\ response.error = ErrUnsupportedType

\* A gif file with invalid dimensions, format and quality: unsupported type.
C1_Witness ==
  /\ AnsweredPOST
  /\ request.form.image = FileField("image/gif")
  /\ InvalidDimensions(request.form)
  /\ InvalidFormat(request.form)
  /\ InvalidQuality(request.form)
  /\ response.error = ErrUnsupportedType

\* C2: a POST that fails one of the five validations is answered with status
\* 400 and a JSON body {error: <message>}, never with the 500 of the catch.
C2_ValidationFailureIs400 ==
  (AnsweredPOST /\ FailsValidation(request.form)) =>
    /\ response.status = 400
    /\ response.body = "json"
    /\ \E n \in 1..5 : response.error = ValidationMessages[n]
    /\ response.error # ErrProcessing

\* A form with no image at all, answered 400.
C2_Witness ==
  /\ AnsweredPOST
  /\ request.form.image = NoFile
  /\ response.status = 400
  /\ response.error = ErrNoImage

\* What the contract calls an integer string: optional leading white space, an
\* optional sign, then decimal digits only, or 0x and hexadecimal digits only.
AllDigits(s, radix) == s # <<>> /\ \A i \in 1..Len(s) : DigitValue(s[i]) < radix

Unsigned(s) ==
  LET t == TrimStart(s)
  IN  IF t # <<>> /\ Head(t) \in {"+", "-"} THEN Tail(t) ELSE t

IsIntegerString(v) ==
  /\ v.present
  /\ LET u == Unsigned(v.text)
     IN  \/ AllDigits(u, 10)
         \/ (Len(u) > 2 /\ u[1] = "0" /\ u[2] \in {"x", "X"}
               /\ AllDigits(SubSeq(u, 3, Len(u)), 16))

\* A numeric string: an integer string, or decimal digits with a fraction.
IsNumericString(v) ==
  \/ IsIntegerString(v)
  \/ /\ v.present
     /\ LET u == Unsigned(v.text)
        IN  \E k \in 1..Len(u) :
              /\ u[k] = "."
              /\ AllDigits(SubSeq(u, 1, k - 1), 10)
              /\ AllDigits(SubSeq(u, k + 1, Len(u)), 10)

\* The integer an integer string denotes.
IntegerOf(v) == parseInt(v).val

IsPositiveInteger(v) == IsIntegerString(v) /\ IntegerOf(v) > 0

\* Missing, zero, negative, or not a numeric string.
BadDimension(v) ==
  \/ ~v.present
  \/ ~IsNumericString(v)
  \/ (IsIntegerString(v) /\ IntegerOf(v) <= 0)

ImageOk(form) == ~NoImage(form) /\ ~UnsupportedType(form)

\* C3 (as claimed): with an image of an allowed type, a width or height that is
\* missing, zero, negative or not a numeric string is answered 400 'Invalid
\* dimensions provided', and the dimension check is passed only when both
\* fields are positive integers.
C3_DimensionsValidated ==
  (AnsweredPOST /\ ImageOk(request.form)) =>
    /\ (BadDimension(request.form.width) \/ BadDimension(request.form.height))
         => (response.status = 400 /\ response.error = ErrInvalidDimensions)
    /\ response.error # ErrInvalidDimensions
         => (IsPositiveInteger(request.form.width) /\ IsPositiveInteger(request.form.height))

\* Missing, not a number, 0, or greater than 100.
BadQuality(v) ==
  \/ ~v.present
  \/ ~IsNumericString(v)
  \/ (IsIntegerString(v) /\ (IntegerOf(v) = 0 \/ IntegerOf(v) > 100))

\* C4 (as claimed): with image, dimensions and format valid, a quality that is
\* missing, not a number, 0 or greater than 100 is answered 400 'Invalid quality
\* value', and every integer quality from 1 to 100 is accepted.
C4_QualityValidated ==
  (AnsweredPOST /\ ImageOk(request.form) /\ ~InvalidDimensions(request.form)
     /\ ~InvalidFormat(request.form)) =>
    /\ BadQuality(request.form.quality)
         => (response.status = 400 /\ response.error = ErrInvalidQuality)
    /\ (IsIntegerString(request.form.quality)
          /\ IntegerOf(request.form.quality) \in 1..100)
         => response.status # 400

\* C5: with image and dimensions valid, a format that is omitted or is any
\* string other than exactly jpeg, jpg, png or webp is answered 400 with the
\* invalid-format error.
C5_FormatValidated ==
  (AnsweredPOST /\ ImageOk(request.form) /\ ~InvalidDimensions(request.form)
     /\ request.form.format \notin {"jpeg", "jpg", "png", "webp"}) =>
    (response.status = 400 /\ response.error = ErrInvalidFormat)

\* A valid image and valid dimensions with the format omitted: invalid format.
C5_Witness ==
  /\ AnsweredPOST
  /\ ImageOk(request.form)
  /\ IsPositiveInteger(request.form.width)
  /\ IsPositiveInteger(request.form.height)
  /\ request.form.format = Null
  /\ response.status = 400
  /\ response.error = ErrInvalidFormat

\* C22: a POST that passes validation and is processed without error is
\* answered with status 200, the image as body, and the Content-Type of the
\* requested format: image/jpeg for jpeg and jpg, image/png for png, image/webp
\* for webp; it is never undefined.
C22_ContentTypeMatchesFormat ==
  (AnsweredPOST /\ ~FailsValidation(request.form) /\ response.error # ErrProcessing) =>
    /\ response.status = 200
    /\ response.body = "image"
    /\ response.headers.contentType # "undefined"
    /\ response.headers.contentType =
         (IF request.form.format \in {"jpeg", "jpg"} THEN "image/jpeg"
          ELSE IF request.form.format = "png" THEN "image/png"
          ELSE IF request.form.format = "webp" THEN "image/webp"
          ELSE "none")

\* A request for format jpg, answered 200 with Content-Type image/jpeg.
C22_Witness ==
  /\ AnsweredPOST
  /\ request.form.format = "jpg"
  /\ response.status = 200
  /\ response.headers.contentType = "image/jpeg"

\* C23: every success response carries the attachment disposition with the file
\* name resized-image.<format>, <format> being the request's format field, and
\* the headers that forbid caching: Cache-Control (the whole value, which holds
\* no-store, no-cache and must-revalidate), Pragma no-cache and Expires 0.
C23_DownloadHeaders ==
  response.status = 200 =>
    /\ response.headers.disposition =
         <<"attachment; filename=\"resized-image.", request.form.format, "\"">>
    /\ response.headers.cacheControl =
         "no-store, no-cache, must-revalidate, proxy-revalidate"
    /\ response.headers.pragma = "no-cache"
    /\ response.headers.expires = "0"

\* A success response for format webp, with its file name and headers.
C23_Witness ==
  /\ AnsweredPOST
  /\ response.status = 200
  /\ request.form.format = "webp"
  /\ response.headers.disposition[2] = "webp"
  /\ response.headers.pragma = "no-cache"

\* C24: a POST that passes validation and whose processing fails is answered
\* with status 500 and the JSON body {error: 'Failed to process image'} and
\* nothing else: the same response whatever the request.
C24_ProcessingFailureIs500 ==
  (AnsweredPOST /\ ~FailsValidation(request.form) /\ response.status # 200) =>
    response = JsonError(500, ErrProcessing)

\* A request that passed validation, reached the image library and failed there.
C24_Witness ==
  /\ AnsweredPOST
  /\ ~FailsValidation(request.form)
  /\ sharpCall # NoCall
  /\ response.status = 500
  /\ response.error = ErrProcessing

\* C25: a GET, PUT or DELETE is answered with status 405 and the JSON body
\* {error: 'Method not allowed'}, with or without a body in the request, and
\* the image library is not called.
C25_OtherMethods405 ==
  (request.method \in {"GET", "PUT", "DELETE"} /\ ~Unanswered) =>
    /\ response = JsonError(405, ErrMethod)
    /\ sharpCall = NoCall

\* A DELETE that carries a form POST would accept, answered 405.
C25_Witness ==
  /\ request.method = "DELETE"
  /\ request.form = SampleForm
  /\ response.status = 405
  /\ response.error = ErrMethod

\* C26: of every source image a success response for format png keeps the
\* transparency, and a success response for any other format holds no alpha,
\* the transparent pixels of the source having been flattened onto white.
C26_TransparencyPolicy ==
  (AnsweredPOST /\ response.status = 200) =>
    \A source \in SourceImages :
      LET out == toBuffer(sharpCall, source)
      IN  IF request.form.format = "png"
          THEN out.alpha = source.alpha
          ELSE ~out.alpha /\ (source.alpha => out.matte = "white")

\* C30: whenever the image library is called the format is one of jpeg, jpg,
\* png, webp, and the encoder is the one of that format's branch, not the
\* fallback (jpeg, not progressive, quality 100).
C30_FallbackUnreachable ==
  sharpCall # NoCall =>
    /\ request.form.format \in {"jpeg", "jpg", "png", "webp"}
    /\ sharpCall.encoder.codec =
         (IF request.form.format = "jpg" THEN "jpeg" ELSE request.form.format)
    /\ ~(sharpCall.encoder.codec = "jpeg" /\ ~sharpCall.encoder.progressive)

\* The jpeg branch proper at quality 100: progressive, with mozjpeg.
C30_Witness ==
  /\ sharpCall # NoCall
  /\ request.form.format = "jpeg"
  /\ sharpCall.encoder.quality = Num(100)
  /\ sharpCall.encoder.progressive

(***************************************************************************)
(* Properties of the client session (checked under Spec, SpecStaging).     *)
(***************************************************************************)

\* C6 (as claimed): at most one resize request is in flight at a time, whatever
\* user actions are interleaved.  Every running batch awaits exactly one response.
C6_OneRequestInFlight == Len(batches) <= 1

\* The request of batch k fails: a response that is not OK, or a rejected fetch.
BatchFails(k) == ResponseNotOk(k) \/ FetchRejected(k)

\* The ids of the first n images of the staged list a batch runs over.
FirstIds(b, n) == {b.images[j].id : j \in 1..n}

\* The batch holds a result for each of its first n images and for no other,
\* each made from that image's file.
HoldsFirst(b, n) ==
  /\ Keys(b.newResizedImages) = FirstIds(b, n)
  /\ \A j \in 1..n : Get(b.newResizedImages, b.images[j].id).file = b.images[j].file

\* C7 (as claimed): when the k-th request of a batch fails, the cached result set
\* afterwards holds exactly the results of the first k-1 images of that batch.
C7_PrefixCached ==
  [][\A k \in 1..Len(batches) :
       BatchFails(k) =>
         /\ Keys(resizedImages') = FirstIds(batches[k], batches[k].i - 1)
         /\ resizedImages' = batches[k].newResizedImages]_vars

\* C7 (amended): when the k-th request of a batch fails, the batch has obtained
\* exactly the results of its first k-1 images, and none of them is stored: the
\* cached result set is left as it was.
C7_PrefixObtainedNotCached ==
  [][\A k \in 1..Len(batches) :
       BatchFails(k) =>
         /\ HoldsFirst(batches[k], batches[k].i - 1)
         /\ resizedImages' = resizedImages]_vars

\* Three staged images, the error names the 2nd one, and nothing is cached.
C7_Witness ==
  /\ Len(originalImages) = 3
  /\ batches = <<>>
  /\ ~isLoading
  /\ error = ErrResizeFailed(originalImages[2].file)
  /\ originalImages[1].file # originalImages[2].file
  /\ originalImages[3].file # originalImages[2].file
  /\ resizeOptions.width > 0
  /\ resizedImages = {}

\* C8: a batch that fails stores none of the results it obtained: a step that
\* changes the cached result set is no step of a batch other than its successful
\* completion (not its start, not an OK response before the last, not a failure).
C8_FailedBatchStoresNothing ==
  [][resizedImages' # resizedImages =>
       ~(\/ handleResize
         \/ \E k \in 1..Len(batches) :
              \/ BatchFails(k)
              \/ (ResponseOk(k) /\ batches[k].i < Len(batches[k].images)))]_vars

\* A batch has failed at its 2nd image while the results of an earlier batch,
\* one for each staged image, are still cached.
C8_Witness ==
  /\ Len(originalImages) = 2
  /\ batches = <<>>
  /\ ~isLoading
  /\ error = ErrResizeFailed(originalImages[2].file)
  /\ originalImages[1].file # originalImages[2].file
  /\ Keys(resizedImages) = {originalImages[1].id, originalImages[2].id}

\* C9: the requests of a batch go through its staged list once, in order: the
\* batch awaits the response for image i having obtained a result for each
\* earlier image; an OK response sends the next image; a response that is not
\* OK ends the batch with no further request and sets the error to the message
\* naming the file of the failed request.
C9_NoRetryNoContinuation ==
  /\ [](\A k \in 1..Len(batches) :
          /\ batches[k].i \in 1..Len(batches[k].images)
          /\ \A m, n \in 1..Len(batches[k].images) :
               batches[k].images[m].id = batches[k].images[n].id => m = n
          /\ Keys(batches[k].newResizedImages) = FirstIds(batches[k], batches[k].i - 1))
  /\ [][\A k \in 1..Len(batches) :
          /\ (ResponseOk(k) /\ batches[k].i < Len(batches[k].images))
               => /\ Len(batches') = Len(batches)
                  /\ batches'[k].images = batches[k].images
                  /\ batches'[k].i = batches[k].i + 1
          /\ ResponseNotOk(k)
               => /\ batches' = RemoveAt(batches, k)
                  /\ error' = ErrResizeFailed(batches[k].images[batches[k].i].file)]_vars

\* A batch over two images has ended at its 1st image: the error names that
\* file, no request is awaited and no result was stored.
C9_Witness ==
  /\ Len(originalImages) = 2
  /\ batches = <<>>
  /\ ~isLoading
  /\ error = ErrResizeFailed(originalImages[1].file)
  /\ originalImages[1].file # originalImages[2].file
  /\ resizedImages = {}

\* C10 (as claimed): at most MAX_IMAGES images are staged, also when files are
\* selected before the images of an earlier selection have loaded.
C10_AtMostMaxImages == Len(originalImages) <= MAX_IMAGES

\* C11 (as claimed): a selection in which some file fails validateFile stages
\* none of its files: no read is started, for the valid files neither.
C11_InvalidFileRejectsSelection ==
  [][\A files \in FileLists(AllFiles, MaxSelect) :
       (/\ \E i \in 1..Len(files) : validateFile(files[i]) # NoError
        /\ handleFileSelect(files))
         => pending' = pending]_vars

\* C12: selecting n files while k images are staged, k + n > MAX_IMAGES, starts
\* no read, leaves the staged list, the cached results and the settings as they
\* were, and sets the error to the message with the count MAX_IMAGES - k.
C12_OverLimitRejected ==
  [][\A files \in FileLists(AllFiles, MaxSelect) :
       (/\ Len(originalImages) + Len(files) > MAX_IMAGES
        /\ handleFileSelect(files))
         => /\ pending' = pending
            /\ originalImages' = originalImages
            /\ resizedImages' = resizedImages
            /\ resizeOptions' = resizeOptions
            /\ error' = ErrMaxImages(MAX_IMAGES - Len(originalImages))]_vars

\* Two files were selected with 9 images staged: the message says 1 more, and
\* no read is under way.
C12_Witness ==
  /\ Len(originalImages) = MAX_IMAGES - 1
  /\ error = ErrMaxImages(1)
  /\ pending = EmptyBag

\* C13: within the count limit, selecting a file larger than MAX_FILE_SIZE sets
\* the size-limit error and starts no read; selecting a valid file, also right
\* after such a rejection, starts the read of that file and clears the error;
\* and the load of a read appends the image of that file to the staged list.
C13_RejectionNotPoisoning ==
  [][/\ \A f \in AllFiles :
          (handleFileSelect(<<f>>) /\ Len(originalImages) + 1 <= MAX_IMAGES)
            => IF FileSize(f) > MAX_FILE_SIZE
                 THEN error' = ErrFileSize /\ pending' = pending
                 ELSE FileType(f) \in ALLOWED_TYPES
                        => /\ error' = NoError
                           /\ BagCardinality(pending') = BagCardinality(pending) + 1
                           /\ \E p \in BagToSet(pending') :
                                /\ p.file = f
                                /\ CopiesIn(p, pending') = CopiesIn(p, pending) + 1
     /\ \A p \in BagToSet(pending) :
          ImageLoaded(p)
            => /\ Len(originalImages') = Len(originalImages) + 1
               /\ SubSeq(originalImages', 1, Len(originalImages)) = originalImages
               /\ originalImages'[Len(originalImages')].file = p.file]_vars

\* A file over the size limit was selected in a fresh session: the size-limit
\* error is set, nothing is staged and no read is under way.
C13_Witness ==
  /\ error = ErrFileSize
  /\ originalImages = <<>>
  /\ pending = EmptyBag
  /\ nextId = 1

\* The result the endpoint makes of a staged image under given settings.
ResizedFrom(img, options) ==
  [file |-> img.file, format |-> img.ext,
   width |-> options.width, height |-> options.height, quality |-> options.quality]

\* C14: when the last request of a batch succeeds (all before it have), the
\* cached result set becomes exactly one result for each image of the staged
\* list the batch started with, stored under that image's id and made from that
\* image's file and format under the batch's settings; nothing cached before is kept.
C14_BatchResultsCached ==
  [][\A k \in 1..Len(batches) :
       (batches[k].i = Len(batches[k].images) /\ ResponseOk(k))
         => LET b == batches[k]
            IN  /\ Keys(resizedImages') = FirstIds(b, Len(b.images))
                /\ Cardinality(resizedImages') = Len(b.images)
                /\ \A j \in 1..Len(b.images) :
                     Get(resizedImages', b.images[j].id) = ResizedFrom(b.images[j], b.options)]_vars

\* Two images of different files are staged, no batch runs, and each has a
\* cached result made from its own file at quality 50, at a width other than
\* the natural one: the results of a batch run after the settings were edited.
C14_Witness ==
  /\ Len(originalImages) = 2
  /\ originalImages[1].file # originalImages[2].file
  /\ batches = <<>>
  /\ ~isLoading
  /\ error = NoError
  /\ Keys(resizedImages) = {originalImages[1].id, originalImages[2].id}
  /\ \A j \in 1..2 :
       LET r == Get(resizedImages, originalImages[j].id)
       IN  /\ r.file = originalImages[j].file
           /\ r.quality = 50
           /\ r.width # originalImages[j].width

\* C19: every request a batch awaits, in a first batch and in a re-resize of
\* images that already have a cached result, carries the file the image was
\* staged from and the format inferred from that file's name.
C19_RequestsCarryOriginal ==
  /\ \A i \in 1..Len(originalImages) :
       originalImages[i].ext = getExt(originalImages[i].file)
  /\ \A k \in 1..Len(batches) :
       LET img == batches[k].images[batches[k].i]
       IN  /\ img.file \in AllFiles
           /\ InFlight(batches[k]).image = FileField(FileType(img.file))
           /\ InFlight(batches[k]).format = getExt(img.file)

\* A re-resize awaits the response for an image named *.jpg that already has a
\* cached result.
C19_Witness ==
  \E k \in 1..Len(batches) :
    LET img == batches[k].images[batches[k].i]
    IN  /\ img.id \in Keys(resizedImages)
        /\ img.file = "b.jpg"
        /\ InFlight(batches[k]).format = "jpg"

\* C20: a batch takes the settings as they are when it is triggered and keeps
\* them for all its requests: no edit of the settings changes a running batch,
\* each next request is built from the same settings, and the width, height and
\* quality a request carries are those settings.
C20_SettingsFixedAtTrigger ==
  /\ [](\A k \in 1..Len(batches) :
          LET b == batches[k]
          IN  /\ InFlight(b).width = Text(NumberToString(b.options.width))
              /\ InFlight(b).height = Text(NumberToString(b.options.height))
              /\ InFlight(b).quality = Text(NumberToString(b.options.quality)))
  /\ [][/\ handleResize => batches'[Len(batches')].options = resizeOptions
        /\ resizeOptions' # resizeOptions => batches' = batches
        /\ \A k \in 1..Len(batches) :
             (batches[k].i < Len(batches[k].images) /\ ResponseOk(k))
               => /\ batches'[k].options = batches[k].options
                  /\ batches'[k].images = batches[k].images]_vars

\* A batch awaits the response for its 2nd image under settings that differ in
\* width, height and quality from the current ones: they were edited meanwhile.
C20_Witness ==
  \E k \in 1..Len(batches) :
    /\ batches[k].i = 2
    /\ batches[k].options.quality # resizeOptions.quality
    /\ batches[k].options.width # resizeOptions.width
    /\ batches[k].options.height # resizeOptions.height

\* The ids of the staged images.
StagedIds == {originalImages[i].id : i \in 1..Len(originalImages)}

\* C15: removing the image at place i takes it, and only it, out of the staged
\* list, takes its cached result, and only it, out of the cached results; an
\* image that was removed is never staged again; and every archive Download All
\* produces has entries for images staged at that time only, so none for an
\* image removed before.
C15_RemoveImageAndDownloadAll ==
  /\ [][\A i \in 1..Len(originalImages) :
          removeImage(originalImages[i].id)
            => /\ originalImages' = RemoveAt(originalImages, i)
               /\ originalImages[i].id \notin Keys(resizedImages')
               /\ resizedImages' \subseteq resizedImages
               /\ \A e \in resizedImages :
                    e.id # originalImages[i].id => e \in resizedImages']_vars
  /\ [][\A id \in 1..(nextId - 1) : id \notin StagedIds => id \notin StagedIds']_vars
  /\ [][downloads' # downloads
          => \A e \in downloads'[Len(downloads')].entries :
               /\ e.id \in StagedIds
               /\ e.blob = Get(resizedImages, e.id)]_vars

\* The first image, staged from a.png, was removed while a batch was running
\* and has a cached result again; the archive that was downloaded holds the one
\* entry of the image that is still staged.
C15_Witness ==
  /\ Len(originalImages) = 1
  /\ originalImages[1].id = 2
  /\ originalImages[1].file = "b.jpg"
  /\ Keys(resizedImages) = {1, 2}
  /\ Get(resizedImages, 1).file = "a.png"
  /\ Len(downloads) = 1
  /\ {e.id : e \in downloads[1].entries} = {2}

\* C16: whatever the state, a step of clear all ends with no staged image, no
\* cached result, no error and loading false, and leaves the settings as they were.
C16_ClearAllResets ==
  [][clearAll
       => /\ originalImages' = <<>>
          /\ resizedImages' = {}
          /\ error' = NoError
          /\ isLoading' = FALSE
          /\ resizeOptions' = resizeOptions]_vars

\* The session was cleared while a batch was awaiting a response: nothing is
\* staged or cached, there is no error, loading is false, and the settings are
\* still the edited ones (width 0), not the initial ones.
C16_Witness ==
  /\ originalImages = <<>>
  /\ resizedImages = {}
  /\ error = NoError
  /\ ~isLoading
  /\ batches # <<>>
  /\ resizeOptions.width = 0

\* C17 (as claimed): the load of an image seeds width and height only when it
\* is the first image of an empty session; a load that finds an image staged
\* already leaves width and height unchanged.
C17_OnlyFirstImageSeeds ==
  [][\A p \in BagToSet(pending) :
       (Len(originalImages) > 0 /\ ImageLoaded(p))
         => /\ resizeOptions'.width = resizeOptions.width
            /\ resizeOptions'.height = resizeOptions.height]_vars

\* C18 (as claimed): with the lock on and the first staged image w0 x h0,
\* editing width to v sets width = v and height = round(v * h0 / w0), editing
\* height to v sets height = v and width = round(v * w0 / h0), whichever other
\* images are staged; with the lock off the other dimension is left unchanged.
C18_AspectLockFromFirstImage ==
  [][\A v \in SettingsDims \cup DimValues :
       LET w0 == originalImages[1].width
           h0 == originalImages[1].height
       IN  /\ handleDimensionChange("width", v)
                => /\ resizeOptions'.width = v
                   /\ resizeOptions'.height =
                        IF resizeOptions.maintainAspectRatio
                          THEN MathRound(v * h0, w0) ELSE resizeOptions.height
           /\ handleDimensionChange("height", v)
                => /\ resizeOptions'.height = v
                   /\ resizeOptions'.width =
                        IF resizeOptions.maintainAspectRatio
                          THEN MathRound(v * w0, h0) ELSE resizeOptions.width]_vars

\* C21: an archive Download All produces has exactly one entry for every staged
\* image that has a cached result, and no other entry; each entry is named
\* <random>_byDimensify.<ext> with the extension of its image; and no two
\* entries of the archive have the same name.
C21_ArchiveEntries ==
  [][downloads' # downloads
       => LET entries == downloads'[Len(downloads')].entries
          IN  /\ Len(downloads') = Len(downloads) + 1
              /\ \A id \in StagedIds \cap Keys(resizedImages) :
                   Cardinality({e \in entries : e.id = id}) = 1
              /\ \A e \in entries :
                   /\ e.id \in StagedIds \cap Keys(resizedImages)
                   /\ \E i \in 1..Len(originalImages), rand \in RandomStrings :
                        /\ originalImages[i].id = e.id
                        /\ e.name = randomName(rand, originalImages[i].ext)
              /\ \A e1, e2 \in entries : e1.name = e2.name => e1 = e2]_vars

\* C27: every id that has a cached result is the id of a staged image.
C27_CachedAreStaged == Keys(resizedImages) \subseteq StagedIds

\* C28: the request a running batch has in flight passes every validation of
\* the endpoint: it is never answered with a 400.
C28_RequestsSatisfyContract ==
  \A k \in 1..Len(batches) :
    /\ ValidationError(InFlight(batches[k])) = Null
    /\ \A codecOk \in BOOLEAN : POSTResponse(InFlight(batches[k]), codecOk).status # 400

\* C29: loading is true for as long as a batch is running (the part of the
\* claim a finite run can refute; that a batch whose requests are all answered
\* ends is the other part).
C29_LoadingWhileBatchRuns == batches # <<>> => isLoading

=============================================================================
